---- MODULE Spec2Model ----
(***************************************************************************)
(* Model of db.DataAccess (src/db/data_access.go): the snapshot store of   *)
(* the cluster recorder.  Every table is a sequence of rows in insertion   *)
(* order; RowID is the AUTOINCREMENT key, i.e. the position of the row.    *)
(* Rows are never removed, so RowID = index.                               *)
(*                                                                         *)
(* Time values (Go time.Time) are integers in microseconds since epoch.    *)
(* A value bound to a statement parameter or held in the nullable          *)
(* DeletionTimestamp column is a tagged record [typ, v]:                   *)
(*    typ = "null"  SQL NULL                                               *)
(*    typ = "int"   integer milliseconds since epoch (UnixMilli)           *)
(*    typ = "time"  a time.Time handed to the driver as it is              *)
(* CreationTimestamp / SnapshotTimestamp columns are always written from   *)
(* t.UTC().UnixMilli() and are plain integers (milliseconds).              *)
(*                                                                         *)
(* dataAccess is the facade object and the database file behind it:        *)
(*    dataDB    the field d.dataDB: "nil", or a handle whose connection is *)
(*              "open" or "closed"                                         *)
(*    schema    the tables that exist in the database file                 *)
(*    prepared  the statement fields that hold a prepared statement        *)
(*    opened    how many times sql.Open has succeeded                      *)
(*    released  how many times d.dataDB.Close() has returned nil           *)
(*                                                                         *)
(* The SQL texts named by Go constants (InsertNodeInfo, SelectNodeInfo-    *)
(* Before, ...) and the row types with their AsInfo methods are declared   *)
(* outside data_access.go; their models follow the specification.          *)
(***************************************************************************)
EXTENDS Integers, Sequences, FiniteSets, TLC

VARIABLES worker_pool_info, mcd_info, node_info, pod_info, pdb_info,
          ca_settings_info, ret, dataAccess

vars == <<worker_pool_info, mcd_info, node_info, pod_info, pdb_info,
          ca_settings_info, ret, dataAccess>>

(* the read operations leave every table alone; ret holds what the last   *)
(* call returned                                                           *)
Tables == <<worker_pool_info, mcd_info, node_info, pod_info, pdb_info, ca_settings_info>>

(* what a read operation leaves in ret: the operation, its arguments when  *)
(* the statement ran, and the values it returned                          *)
Returned(op, args, result) == IF result.err = "QueryError" THEN op @@ result
                              ELSE op @@ args @@ result

(* bound on the number of rows over all tables *)
MaxRows == 3

TotalRows == Len(worker_pool_info) + Len(mcd_info) + Len(node_info)
             + Len(pod_info) + Len(pdb_info) + Len(ca_settings_info)

-----------------------------------------------------------------------------
(* values *)

NullTs == [typ |-> "null", v |-> 0]

TimeParam(t) == [typ |-> "time", v |-> t]

IntParam(n) == [typ |-> "int", v |-> n]

(* adjustParam that forgets the conversion: the time value is bound as it is *)
adjustParamUnadjusted(p) == IF p.typ = "time" THEN IntParam(p.v) ELSE p

(* adjustParam that converts to seconds (Unix) instead of milliseconds *)
adjustParamSeconds(p) == IF p.typ = "time" THEN IntParam(p.v \div 1000000) ELSE p

(* time.Time.UTC().UnixMilli(): whole milliseconds, the sub-millisecond    *)
(* part is dropped                                                         *)
UnixMilli(t) == t \div 1000

(* adjustParam: a time.Time parameter becomes its UnixMilli integer, any   *)
(* other parameter is passed on unchanged                                  *)
adjustParam(p) == IF p.typ = "time" THEN IntParam(UnixMilli(p.v)) ELSE p

(* the Go empty string Hash and a caller-supplied Hash *)
EmptyHash == [given |-> "", of |-> <<>>]

GivenHash(h) == [given |-> h, of |-> <<>>]

(* GetHash: digest over the semantic fields (no timestamps); modelled as   *)
(* the tuple of those fields, so equal digests mean equal content          *)
GetHash(kind, fields) == [given |-> "", of |-> <<kind>> \o fields]

LastAppliedLabel == <<"node.machine.sapcloud.io/last-applied-anno-labels-taints", "x">>

(* texts produced by the codecs: the empty string or a JSON document *)
EmptyText == [kind |-> "empty", obj |-> {}]

JsonText(obj) == [kind |-> "json", obj |-> obj]

(* an encoder that writes the empty text for every map *)
labelsToTextAlwaysEmpty(valMap) == EmptyText

labelsToText(valMap) == IF Cardinality(valMap) = 0 THEN EmptyText ELSE JsonText(valMap)

(* the error result of labelsToText: that of json.Marshal; Unencodable     *)
(* stands for an entry the encoder rejects                                 *)
Unencodable == <<"unencodable", "x">>

labelsToTextErr(valMap) ==
    IF Cardinality(valMap) # 0 /\ Unencodable \in valMap THEN "MarshalError" ELSE "nil"

(* texts handed to the decoders besides those the encoders produce: only  *)
(* white space, and something that is not JSON                             *)
BlankText == [kind |-> "blank", obj |-> {}]

InvalidText == [kind |-> "invalid", obj |-> {}]

(* strings.TrimSpace(text) == "" *)
TrimSpaceEmpty(text) == text.kind \in {"empty", "blank"}

(* the error result of the decoders: that of json.Unmarshal, not called on *)
(* a text that is empty after trimming                                     *)
unmarshalErr(text) ==
    IF ~TrimSpaceEmpty(text) /\ text.kind = "invalid" THEN "UnmarshalError" ELSE "nil"

labelsFromText(textValue) == IF TrimSpaceEmpty(textValue) THEN {} ELSE textValue.obj

resourcesToText(resources) ==
    IF Cardinality(resources) = 0 THEN EmptyText ELSE JsonText(resources)

resourcesFromText(textValue) == IF TrimSpaceEmpty(textValue) THEN {} ELSE textValue.obj

tolerationsToText(tolerations) ==
    IF Len(tolerations) = 0 THEN EmptyText ELSE JsonText(tolerations)

tolerationsFromText(textValue) == IF TrimSpaceEmpty(textValue) THEN <<>> ELSE textValue.obj

tscToText(tsc) == IF Len(tsc) = 0 THEN EmptyText ELSE JsonText(tsc)

tscFromText(textValue) == IF TrimSpaceEmpty(textValue) THEN <<>> ELSE textValue.obj

taintsToText(taints) == IF Len(taints) = 0 THEN EmptyText ELSE JsonText(taints)

taintsFromText(textValue) == IF TrimSpaceEmpty(textValue) THEN <<>> ELSE textValue.obj

(* members of a JSON document of a pod spec: the containers member has no  *)
(* omitempty tag, so a nil slice is written as null; the node name is left *)
(* out when it is empty                                                    *)
JsonNull == [null |-> TRUE, items |-> <<>>]

JsonArray(items) == [null |-> FALSE, items |-> items]

ZeroPodSpec == [Containers |-> <<>>, NodeName |-> ""]

(* specToJson: json.Marshal of the pod spec, whatever it holds *)
specToJson(podSpec) ==
    JsonText([containers |-> IF Len(podSpec.Containers) = 0 THEN JsonNull
                             ELSE JsonArray(podSpec.Containers),
              nodeName |-> podSpec.NodeName])

speccFromJson(jsonVal) ==
    IF TrimSpaceEmpty(jsonVal) THEN ZeroPodSpec
    ELSE [Containers |-> jsonVal.obj.containers.items, NodeName |-> jsonVal.obj.nodeName]

-----------------------------------------------------------------------------
(* helpers over tables *)

Indices(tbl) == 1..Len(tbl)

(* the subsequence of tbl at the indices in S, in RowID order *)
RECURSIVE SelectRows(_, _, _)
SelectRows(tbl, S, i) ==
    IF i > Len(tbl) THEN <<>>
    ELSE (IF i \in S THEN <<tbl[i]>> ELSE <<>>) \o SelectRows(tbl, S, i + 1)

MaxOf(S) == CHOOSE x \in S : \A y \in S : y <= x

-----------------------------------------------------------------------------
(* node_info *)

(* INSERT INTO node_info: appends one row, RowID generated, DeletionTimestamp NULL *)
InsertNodeInfo(tbl, cts, sts, name, labelsText, hash) ==
    Append(tbl, [RowID |-> Len(tbl) + 1, CreationTimestamp |-> cts,
                 SnapshotTimestamp |-> sts, Name |-> name, Labels |-> labelsText,
                 Hash |-> hash, DeletionTimestamp |-> NullTs])

(* StoreNodeInfo that skips the insert when a row with the same Name and   *)
(* Hash is there already                                                   *)
StoreNodeInfoSkipDuplicate(n, ok) ==
    /\ TotalRows < MaxRows
    /\ LET hash == IF n.Hash = EmptyHash THEN GetHash("node", <<n.Name, n.Labels>>) ELSE n.Hash
           dup == \E i \in Indices(node_info) :
                     node_info[i].Name = n.Name /\ node_info[i].Hash = hash
       IN IF ok
          THEN /\ node_info' = IF dup THEN node_info
                               ELSE InsertNodeInfo(node_info, UnixMilli(n.CreationTimestamp),
                                                   UnixMilli(n.SnapshotTimestamp), n.Name,
                                                   labelsToText(n.Labels \ {LastAppliedLabel}),
                                                   hash)
               /\ ret' = [op |-> "StoreNodeInfo", key |-> n.Name, rowID |-> 0, err |-> "nil"]
          ELSE /\ node_info' = node_info
               /\ ret' = [op |-> "StoreNodeInfo", rowID |-> 0, err |-> "ExecError"]
    /\ UNCHANGED <<worker_pool_info, mcd_info, pod_info, pdb_info, ca_settings_info>>

(* StoreNodeInfo: n is a copy, its Labels map is the caller's; the hash is *)
(* taken first, then the last-applied label is deleted from the map, and   *)
(* ret.labels is the map as the caller finds it after the call             *)
StoreNodeInfo(n, ok) ==
    /\ TotalRows < MaxRows
    /\ LET hash == IF n.Hash = EmptyHash THEN GetHash("node", <<n.Name, n.Labels>>) ELSE n.Hash
           labels == n.Labels \ {LastAppliedLabel}
           labelsText == labelsToText(labels)
       IN IF labelsToTextErr(labels) # "nil"
          THEN /\ node_info' = node_info
               /\ ret' = [op |-> "StoreNodeInfo", rowID |-> 0, err |-> labelsToTextErr(labels)]
          ELSE IF ok
          THEN /\ node_info' = InsertNodeInfo(node_info, UnixMilli(n.CreationTimestamp),
                                              UnixMilli(n.SnapshotTimestamp), n.Name,
                                              labelsText, hash)
               /\ ret' = [op |-> "StoreNodeInfo", key |-> n.Name, rowID |-> 0, err |-> "nil",
                          labels |-> labels]
          ELSE /\ node_info' = node_info
               /\ ret' = [op |-> "StoreNodeInfo", rowID |-> 0, err |-> "ExecError"]
    /\ UNCHANGED <<worker_pool_info, mcd_info, pod_info, pdb_info, ca_settings_info>>

(* nodeRow.AsInfo: millisecond columns back to time values, Labels decoded *)
nodeRowAsInfo(r) ==
    [RowID |-> r.RowID, CreationTimestamp |-> r.CreationTimestamp * 1000,
     SnapshotTimestamp |-> r.SnapshotTimestamp * 1000, Name |-> r.Name,
     Labels |-> labelsFromText(r.Labels), Hash |-> r.Hash,
     DeletionTimestamp |-> r.DeletionTimestamp]

(* UPDATE node_info SET DeletionTimestamp = ? WHERE Name = ? *)
UpdateNodeInfoDeletionTimestampSQL(tbl, p, name) ==
    [i \in Indices(tbl) |->
        IF tbl[i].Name = name THEN [tbl[i] EXCEPT !.DeletionTimestamp = p] ELSE tbl[i]]

(* sql.Result.RowsAffected of an UPDATE ... WHERE <key column> = key *)
RowsAffected(tbl, col, key) == Cardinality({i \in Indices(tbl) : tbl[i][col] = key})

(* SELECT * FROM node_info WHERE CreationTimestamp < ? *)
SelectNodeInfoBefore(tbl, params) ==
    SelectRows(tbl, {i \in Indices(tbl) : tbl[i].CreationTimestamp < params[1].v}, 1)

(* the latest row (greatest RowID) per Name among the rows with            *)
(* SnapshotTimestamp < ? and DeletionTimestamp IS NULL                     *)
SelectLatestNodesBeforeAndNotDeleted(tbl, params) ==
    LET cand == {i \in Indices(tbl) : /\ tbl[i].SnapshotTimestamp < params[1].v
                                      /\ tbl[i].DeletionTimestamp = NullTs}
        latest == {i \in cand : \A j \in cand : tbl[j].Name = tbl[i].Name => j <= i}
    IN SelectRows(tbl, latest, 1)

(* SELECT COUNT FROM node_info WHERE Name = ? AND Hash = ? : one result row *)
SelectNodeCountWithNameAndHash(tbl, name, hash) ==
    <<Cardinality({i \in Indices(tbl) : tbl[i].Name = name /\ tbl[i].Hash = hash})>>

UpdateNodeInfoDeletionTimestamp(name, deletionTimestamp, ok) ==
    /\ IF ok
       THEN /\ node_info' = UpdateNodeInfoDeletionTimestampSQL(node_info,
                                TimeParam(deletionTimestamp), name)
            /\ ret' = [op |-> "UpdateNodeInfoDeletionTimestamp", key |-> name,
                       ts |-> deletionTimestamp,
                       updated |-> RowsAffected(node_info, "Name", name), err |-> "nil"]
       ELSE /\ node_info' = node_info
            /\ ret' = [op |-> "UpdateNodeInfoDeletionTimestamp", updated |-> -1, err |-> "ExecError"]
    /\ UNCHANGED <<worker_pool_info, mcd_info, pod_info, pdb_info, ca_settings_info>>

-----------------------------------------------------------------------------
(* pod_info *)

(* INSERT INTO pod_info *)
InsertPodInfo(tbl, cts, sts, name, uid, nodeName, labelsText, hash) ==
    Append(tbl, [RowID |-> Len(tbl) + 1, CreationTimestamp |-> cts,
                 SnapshotTimestamp |-> sts, Name |-> name, UID |-> uid,
                 NodeName |-> nodeName, Labels |-> labelsText,
                 Hash |-> hash, DeletionTimestamp |-> NullTs])

(* StorePodInfo that runs the insert before it looks at the encoding error *)
StorePodInfoInsertFirst(podInfo, ok) ==
    /\ TotalRows < MaxRows
    /\ LET hash == IF podInfo.Hash = EmptyHash
                   THEN GetHash("pod", <<podInfo.Name, podInfo.NodeName, podInfo.Labels>>)
                   ELSE podInfo.Hash
           labels == labelsToText(podInfo.Labels)
       IN IF labelsToTextErr(podInfo.Labels) # "nil"
          THEN /\ pod_info' = InsertPodInfo(pod_info, UnixMilli(podInfo.CreationTimestamp),
                                            UnixMilli(podInfo.SnapshotTimestamp), podInfo.Name,
                                            podInfo.UID, podInfo.NodeName, EmptyText, hash)
               /\ ret' = [op |-> "StorePodInfo", rowID |-> -1,
                          err |-> labelsToTextErr(podInfo.Labels)]
          ELSE IF ok
          THEN /\ pod_info' = InsertPodInfo(pod_info, UnixMilli(podInfo.CreationTimestamp),
                                            UnixMilli(podInfo.SnapshotTimestamp), podInfo.Name,
                                            podInfo.UID, podInfo.NodeName, labels, hash)
               /\ ret' = [op |-> "StorePodInfo", key |-> podInfo.UID,
                          rowID |-> Len(pod_info) + 1, err |-> "nil"]
          ELSE /\ pod_info' = pod_info
               /\ ret' = [op |-> "StorePodInfo", rowID |-> -1, err |-> "ExecError"]
    /\ UNCHANGED <<worker_pool_info, mcd_info, node_info, pdb_info, ca_settings_info>>

StorePodInfo(podInfo, ok) ==
    /\ TotalRows < MaxRows
    /\ LET hash == IF podInfo.Hash = EmptyHash
                   THEN GetHash("pod", <<podInfo.Name, podInfo.NodeName, podInfo.Labels>>)
                   ELSE podInfo.Hash
           labels == labelsToText(podInfo.Labels)
       IN IF labelsToTextErr(podInfo.Labels) # "nil"
          THEN /\ pod_info' = pod_info
               /\ ret' = [op |-> "StorePodInfo", rowID |-> -1,
                          err |-> labelsToTextErr(podInfo.Labels)]
          ELSE IF ok
          THEN /\ pod_info' = InsertPodInfo(pod_info, UnixMilli(podInfo.CreationTimestamp),
                                            UnixMilli(podInfo.SnapshotTimestamp), podInfo.Name,
                                            podInfo.UID, podInfo.NodeName, labels, hash)
               /\ ret' = [op |-> "StorePodInfo", key |-> podInfo.UID,
                          rowID |-> Len(pod_info) + 1, err |-> "nil"]
          ELSE /\ pod_info' = pod_info
               /\ ret' = [op |-> "StorePodInfo", rowID |-> -1, err |-> "ExecError"]
    /\ UNCHANGED <<worker_pool_info, mcd_info, node_info, pdb_info, ca_settings_info>>

(* podRow.AsInfo *)
podRowAsInfo(r) ==
    [RowID |-> r.RowID, CreationTimestamp |-> r.CreationTimestamp * 1000,
     SnapshotTimestamp |-> r.SnapshotTimestamp * 1000, Name |-> r.Name, UID |-> r.UID,
     NodeName |-> r.NodeName, Labels |-> labelsFromText(r.Labels), Hash |-> r.Hash,
     DeletionTimestamp |-> r.DeletionTimestamp]

(* UPDATE pod_info SET DeletionTimestamp=? WHERE UID=? *)
UpdatePodDeletionTimestampSQL(tbl, p, uid) ==
    [i \in Indices(tbl) |->
        IF tbl[i].UID = uid THEN [tbl[i] EXCEPT !.DeletionTimestamp = p] ELSE tbl[i]]

(* UpdatePodDeletionTimestamp with the two statement arguments swapped: no *)
(* row has the timestamp as its UID, nothing is marked                     *)
UpdatePodDeletionTimestampSwapped(podUID, deletionTimestamp, ok) ==
    /\ pod_info' = pod_info
    /\ ret' = IF ok THEN [op |-> "UpdatePodDeletionTimestamp", key |-> podUID,
                          ts |-> deletionTimestamp, updated |-> 0, err |-> "nil"]
              ELSE [op |-> "UpdatePodDeletionTimestamp", updated |-> -1, err |-> "ExecError"]
    /\ UNCHANGED <<worker_pool_info, mcd_info, node_info, pdb_info, ca_settings_info>>

UpdatePodDeletionTimestamp(podUID, deletionTimestamp, ok) ==
    /\ IF ok
       THEN /\ pod_info' = UpdatePodDeletionTimestampSQL(pod_info,
                                IntParam(UnixMilli(deletionTimestamp)), podUID)
            /\ ret' = [op |-> "UpdatePodDeletionTimestamp", key |-> podUID,
                       ts |-> deletionTimestamp,
                       updated |-> RowsAffected(pod_info, "UID", podUID), err |-> "nil"]
       ELSE /\ pod_info' = pod_info
            /\ ret' = [op |-> "UpdatePodDeletionTimestamp", updated |-> -1, err |-> "ExecError"]
    /\ UNCHANGED <<worker_pool_info, mcd_info, node_info, pdb_info, ca_settings_info>>

(* SELECT COUNT FROM pod_info WHERE UID = ? AND Hash = ? : one result row *)
SelectPodCountWithUIDAndHash(tbl, uid, hash) ==
    <<Cardinality({i \in Indices(tbl) : tbl[i].UID = uid /\ tbl[i].Hash = hash})>>

(* SELECT * FROM pod_info WHERE Name=? ORDER BY CreationTimestamp DESC      *)
(* LIMIT 1: the rows that can come first; the order among rows with equal  *)
(* CreationTimestamp is not fixed by the statement                         *)
selectLatestPodInfoWithName(tbl, podName) ==
    {i \in Indices(tbl) :
        /\ tbl[i].Name = podName
        /\ \A j \in Indices(tbl) :
              tbl[j].Name = podName => tbl[j].CreationTimestamp <= tbl[i].CreationTimestamp}

(* the pod as-of statements *)
(* pods without a node, created before the cutoff *)
SelectPodsWithEmptyNameAndBeforeCreationTimestamp(tbl, params) ==
    SelectRows(tbl, {i \in Indices(tbl) : /\ tbl[i].NodeName = ""
                                          /\ tbl[i].CreationTimestamp < params[1].v}, 1)

(* latest row per UID among the rows recorded before the cutoff *)
SelectLatestPodsBeforeSnapshotTimestamp(tbl, params) ==
    LET cand == {i \in Indices(tbl) : tbl[i].SnapshotTimestamp < params[1].v}
        latest == {i \in cand : \A j \in cand : tbl[j].UID = tbl[i].UID => j <= i}
    IN SelectRows(tbl, latest, 1)

(* latest row per UID among the rows of scheduled pods recorded before the *)
(* cutoff and not deleted before it                                        *)
SelectLatestScheduledPodsBeforeSnapshotTimestamp(tbl, params) ==
    LET cand == {i \in Indices(tbl) :
                    /\ tbl[i].NodeName # ""
                    /\ tbl[i].SnapshotTimestamp < params[1].v
                    /\ \/ tbl[i].DeletionTimestamp = NullTs
                       \/ tbl[i].DeletionTimestamp.v >= params[2].v}
        latest == {i \in cand : \A j \in cand : tbl[j].UID = tbl[i].UID => j <= i}
    IN SelectRows(tbl, latest, 1)

-----------------------------------------------------------------------------
(* mcd_info *)

(* INSERT INTO mcd_info *)
InsertMCDInfo(tbl, cts, sts, name, replicas, hash) ==
    Append(tbl, [RowID |-> Len(tbl) + 1, CreationTimestamp |-> cts,
                 SnapshotTimestamp |-> sts, Name |-> name, Replicas |-> replicas,
                 Hash |-> hash, DeletionTimestamp |-> NullTs])

StoreMachineDeploymentInfo(m, ok) ==
    /\ TotalRows < MaxRows
    /\ LET hash == IF m.Hash = EmptyHash THEN GetHash("mcd", <<m.Name, m.Replicas>>)
                   ELSE m.Hash
       IN IF ok
          THEN /\ mcd_info' = InsertMCDInfo(mcd_info, UnixMilli(m.CreationTimestamp),
                                            UnixMilli(m.SnapshotTimestamp), m.Name,
                                            m.Replicas, hash)
               /\ ret' = [op |-> "StoreMachineDeploymentInfo", key |-> m.Name,
                          rowID |-> Len(mcd_info) + 1, err |-> "nil"]
          ELSE /\ mcd_info' = mcd_info
               /\ ret' = [op |-> "StoreMachineDeploymentInfo", rowID |-> 0, err |-> "ExecError"]
    /\ UNCHANGED <<worker_pool_info, node_info, pod_info, pdb_info, ca_settings_info>>

(* mcdRow.AsInfo *)
mcdRowAsInfo(r) ==
    [RowID |-> r.RowID, CreationTimestamp |-> r.CreationTimestamp * 1000,
     SnapshotTimestamp |-> r.SnapshotTimestamp * 1000, Name |-> r.Name,
     Replicas |-> r.Replicas, Hash |-> r.Hash, DeletionTimestamp |-> r.DeletionTimestamp]

(* UPDATE mcd_info SET DeletionTimestamp = ? WHERE Name = ? *)
UpdateMCDInfoDeletionTimestampSQL(tbl, p, name) ==
    [i \in Indices(tbl) |->
        IF tbl[i].Name = name THEN [tbl[i] EXCEPT !.DeletionTimestamp = p] ELSE tbl[i]]

UpdateMCDInfoDeletionTimestamp(name, deletionTimestamp, ok) ==
    /\ IF ok
       THEN /\ mcd_info' = UpdateMCDInfoDeletionTimestampSQL(mcd_info,
                                TimeParam(deletionTimestamp), name)
            /\ ret' = [op |-> "UpdateMCDInfoDeletionTimestamp", key |-> name,
                       ts |-> deletionTimestamp,
                       updated |-> RowsAffected(mcd_info, "Name", name), err |-> "nil"]
       ELSE /\ mcd_info' = mcd_info
            /\ ret' = [op |-> "UpdateMCDInfoDeletionTimestamp", updated |-> -1, err |-> "ExecError"]
    /\ UNCHANGED <<worker_pool_info, node_info, pod_info, pdb_info, ca_settings_info>>

(* SELECT * FROM mcd_info WHERE SnapshotTimestamp < ? *)
SelectMCDBefore(tbl, params) ==
    SelectRows(tbl, {i \in Indices(tbl) : tbl[i].SnapshotTimestamp < params[1].v}, 1)

(* SELECT * FROM mcd_info WHERE Name = ? ORDER BY RowID DESC LIMIT 1 *)
SelectLatestMCDInfo(tbl, name) ==
    LET S == {i \in Indices(tbl) : tbl[i].Name = name}
    IN IF S = {} THEN <<>> ELSE <<tbl[MaxOf(S)]>>

-----------------------------------------------------------------------------
(* worker_pool_info *)

(* INSERT INTO worker_pool_info; the table has no DeletionTimestamp column *)
InsertWorkerPoolInfo(tbl, cts, sts, name, minimum, hash) ==
    Append(tbl, [RowID |-> Len(tbl) + 1, CreationTimestamp |-> cts,
                 SnapshotTimestamp |-> sts, Name |-> name, Minimum |-> minimum,
                 Hash |-> hash])

StoreWorkerPoolInfo(w, ok) ==
    /\ TotalRows < MaxRows
    /\ LET hash == IF w.Hash = EmptyHash THEN GetHash("pool", <<w.Name, w.Minimum>>)
                   ELSE w.Hash
       IN IF ok
          THEN /\ worker_pool_info' = InsertWorkerPoolInfo(worker_pool_info,
                                          UnixMilli(w.CreationTimestamp),
                                          UnixMilli(w.SnapshotTimestamp), w.Name,
                                          w.Minimum, hash)
               /\ ret' = [op |-> "StoreWorkerPoolInfo", key |-> w.Name,
                          rowID |-> Len(worker_pool_info) + 1, err |-> "nil"]
          ELSE /\ worker_pool_info' = worker_pool_info
               /\ ret' = [op |-> "StoreWorkerPoolInfo", rowID |-> 0, err |-> "ExecError"]
    /\ UNCHANGED <<mcd_info, node_info, pod_info, pdb_info, ca_settings_info>>

(* workerPoolRow.AsInfo *)
workerPoolRowAsInfo(r) ==
    [RowID |-> r.RowID, CreationTimestamp |-> r.CreationTimestamp * 1000,
     SnapshotTimestamp |-> r.SnapshotTimestamp * 1000, Name |-> r.Name,
     Minimum |-> r.Minimum, Hash |-> r.Hash]

(* SELECT * FROM worker_pool_info WHERE SnapshotTimestamp < ? *)
SelectWorkerPoolInfoBefore(tbl, params) ==
    SelectRows(tbl, {i \in Indices(tbl) : tbl[i].SnapshotTimestamp < params[1].v}, 1)

-----------------------------------------------------------------------------
(* ca_settings_info *)

(* INSERT INTO ca_settings_info *)
InsertCADeployment(tbl, expander, hash) ==
    Append(tbl, [RowID |-> Len(tbl) + 1, Expander |-> expander, Hash |-> hash])

(* the Hash is bound as supplied, it is not computed here *)
StoreCADeployment(caSettings, ok) ==
    /\ TotalRows < MaxRows
    /\ IF ok
       THEN /\ ca_settings_info' = InsertCADeployment(ca_settings_info,
                                       caSettings.Expander, caSettings.Hash)
            /\ ret' = [op |-> "StoreCADeployment", key |-> caSettings.Expander,
                       rowID |-> Len(ca_settings_info) + 1, err |-> "nil"]
       ELSE /\ ca_settings_info' = ca_settings_info
            /\ ret' = [op |-> "StoreCADeployment", rowID |-> -1, err |-> "ExecError"]
    /\ UNCHANGED <<worker_pool_info, mcd_info, node_info, pod_info, pdb_info>>

(* SELECT of the latest ca_settings_info row: no parameter, the row with   *)
(* the greatest RowID                                                      *)
SelectLatestCADeployment(tbl) == IF Len(tbl) = 0 THEN <<>> ELSE <<tbl[Len(tbl)]>>

(* GetLatestCADeployment: the first row scanned, nil with a nil error when *)
(* there is none; found holds the row pointed to, or nothing for nil       *)
GetLatestCADeployment(tbl, ok) ==
    LET caDeployments == SelectLatestCADeployment(tbl)
    IN IF ~ok THEN [found |-> <<>>, err |-> "QueryError"]
       ELSE IF Len(caDeployments) = 0 THEN [found |-> <<>>, err |-> "nil"]
       ELSE [found |-> <<caDeployments[1]>>, err |-> "nil"]

(* GetCADeploymentWithHash: runs selectLatestCADeployment, not             *)
(* selectCADeploymentByHash, with Hash as its argument.  The statement has *)
(* no parameter: the driver either refuses the extra argument or leaves it *)
(* unbound (ignoresArg)                                                    *)
GetCADeploymentWithHash(tbl, Hash, ok, ignoresArg) ==
    IF ok /\ ~ignoresArg THEN [found |-> <<>>, err |-> "ArgCountError"]
    ELSE GetLatestCADeployment(tbl, ok)

QueryGetLatestCADeployment(ok) ==
    /\ ret' = [op |-> "GetLatestCADeployment", failed |-> ~ok]
                  @@ GetLatestCADeployment(ca_settings_info, ok)
    /\ UNCHANGED Tables

QueryGetCADeploymentWithHash(Hash, ok, ignoresArg) ==
    /\ ret' = [op |-> "GetCADeploymentWithHash", hash |-> Hash, failed |-> ~ok]
                  @@ GetCADeploymentWithHash(ca_settings_info, Hash, ok, ignoresArg)
    /\ UNCHANGED Tables

-----------------------------------------------------------------------------
(* pdb_info: the facade prepares the two statements; the timestamps are     *)
(* bound as they are (DATETIME columns)                                    *)

(* INSERT INTO pdb_info(uid,name,generation,creationTimestamp,...) *)
insertPDB(uid, creationTimestamp, ok) ==
    /\ TotalRows < MaxRows
    /\ IF ok
       THEN /\ pdb_info' = Append(pdb_info,
                               [id |-> Len(pdb_info) + 1, uid |-> uid,
                                creationTimestamp |-> TimeParam(creationTimestamp),
                                DeletionTimestamp |-> NullTs])
            /\ ret' = [op |-> "insertPDB", key |-> uid,
                       rowID |-> Len(pdb_info) + 1, err |-> "nil"]
       ELSE /\ pdb_info' = pdb_info
            /\ ret' = [op |-> "insertPDB", rowID |-> -1, err |-> "ExecError"]
    /\ UNCHANGED <<worker_pool_info, mcd_info, node_info, pod_info, ca_settings_info>>

(* UPDATE pdb_info SET DeletionTimeStamp=? WHERE uid=? *)
updatePdbDeletionTimeStamp(uid, deletionTimestamp, ok) ==
    /\ IF ok
       THEN /\ pdb_info' = [i \in Indices(pdb_info) |->
                               IF pdb_info[i].uid = uid
                               THEN [pdb_info[i] EXCEPT
                                        !.DeletionTimestamp = TimeParam(deletionTimestamp)]
                               ELSE pdb_info[i]]
            /\ ret' = [op |-> "updatePdbDeletionTimeStamp", key |-> uid,
                       ts |-> deletionTimestamp,
                       updated |-> RowsAffected(pdb_info, "uid", uid), err |-> "nil"]
       ELSE /\ pdb_info' = pdb_info
            /\ ret' = [op |-> "updatePdbDeletionTimeStamp", updated |-> -1, err |-> "ExecError"]
    /\ UNCHANGED <<worker_pool_info, mcd_info, node_info, pod_info, ca_settings_info>>

-----------------------------------------------------------------------------
(* the generic query primitives and the read operations *)

(* stmt.Query: the rows the prepared statement held in the facade field    *)
(* stmt yields for the bound parameters                                    *)
Query(stmt, tbl, params) ==
    CASE stmt = "selectWorkerPoolInfosBefore" -> SelectWorkerPoolInfoBefore(tbl, params)
      [] stmt = "selectMCDInfoBefore" -> SelectMCDBefore(tbl, params)
      [] stmt = "selectNodeInfosBefore" -> SelectNodeInfoBefore(tbl, params)
      [] stmt = "selectLatestNodesBeforeAndNotDeleted" ->
            SelectLatestNodesBeforeAndNotDeleted(tbl, params)
      [] stmt = "selectUnscheduledPodsBeforeTimestamp" ->
            SelectPodsWithEmptyNameAndBeforeCreationTimestamp(tbl, params)
      [] stmt = "selectLatestPodInfosBeforeSnapshotTimestamp" ->
            SelectLatestPodsBeforeSnapshotTimestamp(tbl, params)
      [] stmt = "selectScheduledPodsBeforeSnapshotTimestamp" ->
            SelectLatestScheduledPodsBeforeSnapshotTimestamp(tbl, params)

(* row[I].AsInfo of the row type T *)
AsInfo(T, r) ==
    CASE T = "workerPoolRow" -> workerPoolRowAsInfo(r)
      [] T = "mcdRow" -> mcdRowAsInfo(r)
      [] T = "nodeRow" -> nodeRowAsInfo(r)
      [] T = "podRow" -> podRowAsInfo(r)

(* queryAndMapToInfos without the zero-row check: an empty result is a     *)
(* success                                                                 *)
queryAndMapToInfosEmptyOk(T, stmt, tbl, params, ok) ==
    LET adjustedParams == [i \in 1..Len(params) |-> adjustParam(params[i])]
        rowObjs == Query(stmt, tbl, adjustedParams)
    IN IF ~ok THEN [infoObjs |-> <<>>, err |-> "QueryError"]
       ELSE [infoObjs |-> [i \in 1..Len(rowObjs) |-> AsInfo(T, rowObjs[i])], err |-> "nil"]

(* queryAndMapToInfos: adjusts the parameters, runs the statement, fails   *)
(* with sql.ErrNoRows on zero rows, maps every row with AsInfo             *)
queryAndMapToInfos(T, stmt, tbl, params, ok) ==
    LET adjustedParams == [i \in 1..Len(params) |-> adjustParam(params[i])]
        rowObjs == Query(stmt, tbl, adjustedParams)
    IN IF ~ok THEN [infoObjs |-> <<>>, err |-> "QueryError"]
       ELSE IF Len(rowObjs) = 0 THEN [infoObjs |-> <<>>, err |-> "ErrNoRows"]
       ELSE [infoObjs |-> [i \in 1..Len(rowObjs) |-> AsInfo(T, rowObjs[i])], err |-> "nil"]

(* queryAndMapToInfo that maps whatever scan.Row left in rowObj: with no   *)
(* row the zero value comes back as a success                              *)
queryAndMapToInfoZeroValue(T, rowObjs, ok) ==
    IF ~ok THEN [infoObj |-> <<>>, err |-> "QueryError"]
    ELSE IF Len(rowObjs) = 0 THEN [infoObj |-> <<>>, err |-> "nil"]
    ELSE [infoObj |-> AsInfo(T, rowObjs[1]), err |-> "nil"]

(* queryAndMapToInfo: the first row of the result mapped with AsInfo; an   *)
(* error wrapping sql.ErrNoRows when there is none                         *)
queryAndMapToInfo(T, rowObjs, ok) ==
    IF ~ok THEN [infoObj |-> <<>>, err |-> "QueryError"]
    ELSE IF Len(rowObjs) = 0 THEN [infoObj |-> <<>>, err |-> "ErrNoRows"]
    ELSE [infoObj |-> AsInfo(T, rowObjs[1]), err |-> "nil"]

(* stmt.QueryRow(...).Scan(&count) into a sql.NullInt32: the count of the  *)
(* first row, sql.ErrNoRows when the statement yields no row, or the       *)
(* error of the query                                                      *)
QueryRowScan(resultRows, ok) ==
    IF ~ok THEN [Valid |-> FALSE, Int32 |-> 0, err |-> "QueryError"]
    ELSE IF Len(resultRows) = 0 THEN [Valid |-> FALSE, Int32 |-> 0, err |-> "ErrNoRows"]
    ELSE [Valid |-> TRUE, Int32 |-> resultRows[1], err |-> "nil"]

(* the result handling that reports every failure as the sentinel alone *)
countOutcomeHidesError(count, err) ==
    IF count.Valid THEN [count |-> count.Int32, err |-> "nil"]
    ELSE [count |-> -1, err |-> "nil"]

(* the result handling of the count functions: (count, nil) when a count   *)
(* was scanned, (-1, nil) on sql.ErrNoRows, (-1, err) otherwise            *)
countOutcome(count, err) ==
    IF count.Valid THEN [count |-> count.Int32, err |-> "nil"]
    ELSE IF err = "ErrNoRows" THEN [count |-> -1, err |-> "nil"]
    ELSE [count |-> -1, err |-> err]

countWithHash(resultRows, ok) ==
    LET scanned == QueryRowScan(resultRows, ok)
    IN countOutcome([Valid |-> scanned.Valid, Int32 |-> scanned.Int32], scanned.err)

(* what the count statement can come back with: the row holding the count  *)
(* or, for a statement that yields a row only when something matches, no   *)
(* row                                                                     *)
CountResultRows(counted) == {counted, <<>>}

CallCountNodeInfoWithHash(name, hash, ok) ==
    /\ \E rows \in CountResultRows(SelectNodeCountWithNameAndHash(node_info, name, hash)) :
          ret' = Returned([op |-> "CountNodeInfoWithHash"],
                          [key |-> name, hash |-> hash, rows |-> rows],
                          countWithHash(rows, ok))
    /\ UNCHANGED Tables

CallCountPodInfoWithSpecHash(uid, hash, ok) ==
    /\ \E rows \in CountResultRows(SelectPodCountWithUIDAndHash(pod_info, uid, hash)) :
          ret' = Returned([op |-> "CountPodInfoWithSpecHash"],
                          [key |-> uid, hash |-> hash, rows |-> rows],
                          countWithHash(rows, ok))
    /\ UNCHANGED Tables

CountNodeInfoWithHash(tbl, name, hash, ok) ==
    countWithHash(SelectNodeCountWithNameAndHash(tbl, name, hash), ok)

(* LoadNodeInfosBefore running the latest-not-deleted statement *)
LoadNodeInfosBeforeWrongStmt(tbl, creationTimestamp, ok) ==
    queryAndMapToInfos("nodeRow", "selectLatestNodesBeforeAndNotDeleted", tbl,
                       <<TimeParam(creationTimestamp)>>, ok)

LoadNodeInfosBefore(tbl, creationTimestamp, ok) ==
    queryAndMapToInfos("nodeRow", "selectNodeInfosBefore", tbl,
                       <<TimeParam(creationTimestamp)>>, ok)

(* GetLatestNodesBeforeAndNotDeleted running the delete-agnostic statement *)
GetLatestNodesBeforeAndNotDeletedWrongStmt(tbl, timestamp, ok) ==
    queryAndMapToInfos("nodeRow", "selectNodeInfosBefore", tbl,
                       <<TimeParam(timestamp)>>, ok)

GetLatestNodesBeforeAndNotDeleted(tbl, timestamp, ok) ==
    queryAndMapToInfos("nodeRow", "selectLatestNodesBeforeAndNotDeleted", tbl,
                       <<TimeParam(timestamp)>>, ok)

QueryLoadNodeInfosBefore(creationTimestamp, ok) ==
    /\ ret' = Returned([op |-> "LoadNodeInfosBefore"], [ts |-> creationTimestamp],
                       LoadNodeInfosBefore(node_info, creationTimestamp, ok))
    /\ UNCHANGED Tables

QueryGetLatestNodesBeforeAndNotDeleted(timestamp, ok) ==
    /\ ret' = Returned([op |-> "GetLatestNodesBeforeAndNotDeleted"], [ts |-> timestamp],
                       GetLatestNodesBeforeAndNotDeleted(node_info, timestamp, ok))
    /\ UNCHANGED Tables

QueryCountNodeInfoWithHash(name, hash, ok) ==
    /\ ret' = Returned([op |-> "CountNodeInfoWithHash"], [key |-> name, hash |-> hash],
                       CountNodeInfoWithHash(node_info, name, hash, ok))
    /\ UNCHANGED Tables

CountPodInfoWithSpecHash(tbl, uid, hash, ok) ==
    countWithHash(SelectPodCountWithUIDAndHash(tbl, uid, hash), ok)

GetLatestUnscheduledPodsBeforeTimestamp(tbl, timeStamp, ok) ==
    queryAndMapToInfos("podRow", "selectUnscheduledPodsBeforeTimestamp", tbl,
                       <<TimeParam(timeStamp)>>, ok)

GetLatestPodInfosBeforeSnapshotTime(tbl, snapshotTime, ok) ==
    queryAndMapToInfos("podRow", "selectLatestPodInfosBeforeSnapshotTimestamp", tbl,
                       <<TimeParam(snapshotTime)>>, ok)

GetLatestScheduledPodsBeforeTimestamp(tbl, timestamp, ok) ==
    queryAndMapToInfos("podRow", "selectScheduledPodsBeforeSnapshotTimestamp", tbl,
                       <<TimeParam(timestamp), TimeParam(timestamp)>>, ok)

(* LoadLatestPodInfoWithName: i is the row the statement puts first *)
QueryLoadLatestPodInfoWithName(podName, i, ok) ==
    /\ \/ i \in selectLatestPodInfoWithName(pod_info, podName)
       \/ i = 0 /\ selectLatestPodInfoWithName(pod_info, podName) = {}
    /\ ret' = Returned([op |-> "LoadLatestPodInfoWithName"], [key |-> podName],
                       queryAndMapToInfo("podRow", SelectRows(pod_info, {i}, 1), ok))
    /\ UNCHANGED Tables

QueryCountPodInfoWithSpecHash(uid, hash, ok) ==
    /\ ret' = Returned([op |-> "CountPodInfoWithSpecHash"], [key |-> uid, hash |-> hash],
                       CountPodInfoWithSpecHash(pod_info, uid, hash, ok))
    /\ UNCHANGED Tables

QueryGetLatestUnscheduledPodsBeforeTimestamp(timeStamp, ok) ==
    /\ ret' = Returned([op |-> "GetLatestUnscheduledPodsBeforeTimestamp"], [ts |-> timeStamp],
                       GetLatestUnscheduledPodsBeforeTimestamp(pod_info, timeStamp, ok))
    /\ UNCHANGED Tables

QueryGetLatestPodInfosBeforeSnapshotTime(snapshotTime, ok) ==
    /\ ret' = Returned([op |-> "GetLatestPodInfosBeforeSnapshotTime"], [ts |-> snapshotTime],
                       GetLatestPodInfosBeforeSnapshotTime(pod_info, snapshotTime, ok))
    /\ UNCHANGED Tables

QueryGetLatestScheduledPodsBeforeTimestamp(timestamp, ok) ==
    /\ ret' = Returned([op |-> "GetLatestScheduledPodsBeforeTimestamp"], [ts |-> timestamp],
                       GetLatestScheduledPodsBeforeTimestamp(pod_info, timestamp, ok))
    /\ UNCHANGED Tables

LoadMachineDeploymentInfosBefore(tbl, snapshotTimestamp, ok) ==
    queryAndMapToInfos("mcdRow", "selectMCDInfoBefore", tbl,
                       <<TimeParam(snapshotTimestamp)>>, ok)

LoadLatestMachineDeploymentInfo(tbl, name, ok) ==
    queryAndMapToInfo("mcdRow", SelectLatestMCDInfo(tbl, name), ok)

QueryLoadMachineDeploymentInfosBefore(snapshotTimestamp, ok) ==
    /\ ret' = Returned([op |-> "LoadMachineDeploymentInfosBefore"], [ts |-> snapshotTimestamp],
                       LoadMachineDeploymentInfosBefore(mcd_info, snapshotTimestamp, ok))
    /\ UNCHANGED Tables

QueryLoadLatestMachineDeploymentInfo(name, ok) ==
    /\ ret' = Returned([op |-> "LoadLatestMachineDeploymentInfo"], [key |-> name],
                       LoadLatestMachineDeploymentInfo(mcd_info, name, ok))
    /\ UNCHANGED Tables

LoadWorkerPoolInfosBefore(tbl, snapshotTimestamp, ok) ==
    queryAndMapToInfos("workerPoolRow", "selectWorkerPoolInfosBefore", tbl,
                       <<TimeParam(snapshotTimestamp)>>, ok)

QueryLoadWorkerPoolInfosBefore(snapshotTimestamp, ok) ==
    /\ ret' = Returned([op |-> "LoadWorkerPoolInfosBefore"], [ts |-> snapshotTimestamp],
                       LoadWorkerPoolInfosBefore(worker_pool_info, snapshotTimestamp, ok))
    /\ UNCHANGED Tables

-----------------------------------------------------------------------------
(* Init and Close *)

(* bound on the number of successful sql.Open calls *)
MaxOpens == 2

(* createSchema: the tables it creates, in the order of its statements;    *)
(* the creation of nodegroup_info is commented out                         *)
CreatedTables == <<"worker_pool_info", "mcd_info", "event_info", "node_info",
                   "pod_info", "pdb_info", "ca_settings_info">>

(* prepareStatements: the field each Prepare is assigned to, the table its *)
(* statement reads or writes, and whether the error of the Prepare is      *)
(* looked at before the next Prepare overwrites it                         *)
PreparedStatements ==
    <<[field |-> "insertWorkerPoolInfo", table |-> "worker_pool_info", checked |-> TRUE],
      [field |-> "selectWorkerPoolInfosBefore", table |-> "worker_pool_info", checked |-> TRUE],
      [field |-> "insertNodeInfo", table |-> "node_info", checked |-> TRUE],
      [field |-> "updateNodeInfoDeletionTimeStamp", table |-> "node_info", checked |-> TRUE],
      [field |-> "selectNodeInfosBefore", table |-> "node_info", checked |-> TRUE],
      [field |-> "insertPDB", table |-> "pdb_info", checked |-> TRUE],
      [field |-> "updatePdbDeletionTimeStamp", table |-> "pdb_info", checked |-> TRUE],
      [field |-> "updateMCDInfoDeletionTimeStamp", table |-> "mcd_info", checked |-> TRUE],
      [field |-> "selectMCDInfoBefore", table |-> "mcd_info", checked |-> TRUE],
      [field |-> "selectAllActiveNodeGroupsDesc", table |-> "nodegroup_info", checked |-> TRUE],
      [field |-> "selectMCDInfoHash", table |-> "mcd_info", checked |-> TRUE],
      [field |-> "selectLatestMCDInfo", table |-> "mcd_info", checked |-> TRUE],
      [field |-> "selectLatestPodInfoWithName", table |-> "pod_info", checked |-> TRUE],
      [field |-> "insertEvent", table |-> "event_info", checked |-> TRUE],
      [field |-> "insertPodInfo", table |-> "pod_info", checked |-> TRUE],
      [field |-> "selectPodCountWithUIDAndHash", table |-> "pod_info", checked |-> TRUE],
      [field |-> "updatePodDeletionTimeStamp", table |-> "pod_info", checked |-> TRUE],
      [field |-> "insertMCDInfo", table |-> "mcd_info", checked |-> TRUE],
      [field |-> "selectEventWithUID", table |-> "event_info", checked |-> FALSE],
      [field |-> "selectAllEvents", table |-> "event_info", checked |-> TRUE],
      [field |-> "selectUnscheduledPodsBeforeTimestamp", table |-> "pod_info", checked |-> TRUE],
      [field |-> "selectScheduledPodsBeforeSnapshotTimestamp", table |-> "pod_info", checked |-> TRUE],
      [field |-> "selectLatestPodInfosBeforeSnapshotTimestamp", table |-> "pod_info", checked |-> TRUE],
      [field |-> "selectNodeCountWithNameAndHash", table |-> "node_info", checked |-> TRUE],
      [field |-> "selectCADeploymentByHash", table |-> "ca_settings_info", checked |-> TRUE],
      [field |-> "selectLatestCADeployment", table |-> "ca_settings_info", checked |-> TRUE],
      [field |-> "insertCADeployment", table |-> "ca_settings_info", checked |-> TRUE],
      [field |-> "selectLatestNodesBeforeAndNotDeleted", table |-> "node_info", checked |-> TRUE]>>

StatementFields == {PreparedStatements[i].field : i \in 1..Len(PreparedStatements)}

StatementTables == {PreparedStatements[i].table : i \in 1..Len(PreparedStatements)}

MinOf(S) == CHOOSE x \in S : \A y \in S : x <= y

(* createSchema: runs the CREATE TABLE IF NOT EXISTS statements in order   *)
(* and returns at the first that fails; fail names the table whose         *)
(* statement fails, "none" when none does                                  *)
createSchema(schema, fail) ==
    LET failing == {i \in 1..Len(CreatedTables) : CreatedTables[i] = fail}
        done == IF failing = {} THEN Len(CreatedTables) ELSE MinOf(failing) - 1
    IN [schema |-> schema \cup {CreatedTables[i] : i \in 1..done},
        err |-> IF failing = {} THEN "nil" ELSE "SchemaError"]

(* prepareStatements: every Prepare assigns its field (nil when it fails); *)
(* a Prepare fails when fail names its field, and also when its table does *)
(* not exist if the driver compiles the statement at Prepare (compiles);   *)
(* a driver that keeps the text and compiles it at the first use does not  *)
(* see the missing table here.  The function returns at the first failure  *)
(* it looks at                                                             *)
prepareStatements(schema, prepared, fail, compiles) ==
    LET n == Len(PreparedStatements)
        failed(i) == \/ PreparedStatements[i].field = fail
                     \/ compiles /\ PreparedStatements[i].table \notin schema
        stops == {i \in 1..n : failed(i) /\ PreparedStatements[i].checked}
        last == IF stops = {} THEN n ELSE MinOf(stops)
        assigned == {PreparedStatements[i].field : i \in 1..last}
        good == {PreparedStatements[i].field : i \in {j \in 1..last : ~failed(j)}}
    IN [prepared |-> (prepared \ assigned) \cup good,
        err |-> IF stops = {} THEN "nil" ELSE "PrepareError"]

(* DataAccess.Init: sql.Open, createSchema, prepareStatements; d.dataDB is *)
(* assigned as soon as the database is open                                *)
DataAccessInit(openOk, failSchema, failPrepare, compiles) ==
    /\ dataAccess.opened < MaxOpens
    /\ LET cs == createSchema(dataAccess.schema, failSchema)
           ps == prepareStatements(cs.schema, dataAccess.prepared, failPrepare, compiles)
           call == [op |-> "Init", fresh |-> dataAccess.schema = {},
                    injected |-> ~openOk \/ failSchema # "none" \/ failPrepare # "none"]
       IN IF ~openOk
          THEN /\ dataAccess' = dataAccess
               /\ ret' = call @@ [err |-> "OpenError"]
          ELSE IF cs.err # "nil"
          THEN /\ dataAccess' = [dataAccess EXCEPT !.dataDB = "open", !.schema = cs.schema,
                                                   !.opened = @ + 1]
               /\ ret' = call @@ [err |-> cs.err]
          ELSE /\ dataAccess' = [dataAccess EXCEPT !.dataDB = "open", !.schema = cs.schema,
                                                   !.prepared = ps.prepared,
                                                   !.opened = @ + 1]
               /\ ret' = call @@ [err |-> ps.err]
    /\ UNCHANGED Tables

(* DataAccess.Close: nothing to do when d.dataDB is nil; otherwise         *)
(* d.dataDB.Close(), whose error is returned with the field left as it is, *)
(* and on success the field is set to nil.  sql.DB.Close on a handle that  *)
(* is closed already returns nil; a Close that reports an error has closed *)
(* the handle all the same.  released counts the handles closed            *)
sqlDBClose(handle, ok) ==
    IF handle = "closed" THEN [handle |-> "closed", closes |-> 0, err |-> "nil"]
    ELSE [handle |-> "closed", closes |-> 1, err |-> IF ok THEN "nil" ELSE "CloseError"]

CloseWithoutNilCheck(ok) ==
    /\ IF dataAccess.dataDB = "nil"
       THEN /\ dataAccess' = dataAccess
            /\ ret' = [op |-> "Close", called |-> TRUE, err |-> "panic"]
       ELSE LET closed == sqlDBClose(dataAccess.dataDB, ok)
            IN /\ dataAccess' = [dataAccess EXCEPT
                                    !.dataDB = IF closed.err # "nil" THEN closed.handle ELSE "nil",
                                    !.released = @ + closed.closes]
               /\ ret' = [op |-> "Close", called |-> TRUE, err |-> closed.err]
    /\ UNCHANGED Tables

Close(ok) ==
    /\ IF dataAccess.dataDB = "nil"
       THEN /\ dataAccess' = dataAccess
            /\ ret' = [op |-> "Close", called |-> FALSE, err |-> "nil"]
       ELSE LET closed == sqlDBClose(dataAccess.dataDB, ok)
            IN /\ dataAccess' = [dataAccess EXCEPT
                                    !.dataDB = IF closed.err # "nil" THEN closed.handle ELSE "nil",
                                    !.released = @ + closed.closes]
               /\ ret' = [op |-> "Close", called |-> TRUE, err |-> closed.err]
    /\ UNCHANGED Tables

(* LoadEventInfoWithUID: runs selectEventWithUID; a nil statement makes    *)
(* the call panic                                                          *)
LoadEventInfoWithUID(ok) ==
    /\ ret' = [op |-> "LoadEventInfoWithUID",
               err |-> IF "selectEventWithUID" \notin dataAccess.prepared THEN "panic"
                       ELSE IF ok THEN "ErrNoRows" ELSE "QueryError"]
    /\ UNCHANGED <<dataAccess, worker_pool_info, mcd_info, node_info, pod_info, pdb_info,
                   ca_settings_info>>

-----------------------------------------------------------------------------
(* inputs *)

Names == {"n1", "n2"}

UIDs == {"u1", "u2"}

(* deletion timestamps and as-of cutoffs, in microseconds *)
DelTimes == {2000, 3500}

Cutoffs == {500, 1000, 1500, 3000}

Last(seq) == seq[Len(seq)]

NoLabels == {}

SomeLabels == {<<"a", "b">>}

(* objects handed to the Store operations when every kind is exercised *)
NodeInfos == [Name : Names, CreationTimestamp : {1000}, SnapshotTimestamp : {1000},
              Labels : {SomeLabels}, Hash : {EmptyHash}]

PodInfos ==
    {[Name |-> "p1", UID |-> "u1", NodeName |-> "", CreationTimestamp |-> 1000,
      SnapshotTimestamp |-> 1000, Labels |-> NoLabels, Hash |-> EmptyHash],
     [Name |-> "p2", UID |-> "u2", NodeName |-> "n1", CreationTimestamp |-> 1000,
      SnapshotTimestamp |-> 1000, Labels |-> NoLabels, Hash |-> GivenHash("h1")]}

MachineDeploymentInfos == [Name : Names, CreationTimestamp : {1000},
                           SnapshotTimestamp : {1000}, Replicas : {1}, Hash : {EmptyHash}]

WorkerPoolInfos == [Name : {"w1"}, CreationTimestamp : {0}, SnapshotTimestamp : {1000},
                    Minimum : {1}, Hash : {EmptyHash}]

CASettingsInfos == [Expander : {"least-waste"}, Hash : {GivenHash("h1")}]

(* objects for the per-kind specifications: several snapshot times, equal  *)
(* and decreasing creation times, supplied and computed hashes             *)
NodeSnapshots ==
    {[Name |-> k, CreationTimestamp |-> t[1], SnapshotTimestamp |-> t[2],
      Labels |-> SomeLabels, Hash |-> EmptyHash] : k \in Names, t \in {<<0, 1000>>, <<1000, 2500>>}}

PodSnapshots ==
    {[Name |-> "p1", UID |-> "u1", NodeName |-> "", CreationTimestamp |-> 1000,
      SnapshotTimestamp |-> 1000, Labels |-> NoLabels, Hash |-> EmptyHash],
     [Name |-> "p1", UID |-> "u1", NodeName |-> "n1", CreationTimestamp |-> 1000,
      SnapshotTimestamp |-> 2500, Labels |-> NoLabels, Hash |-> EmptyHash],
     [Name |-> "p1", UID |-> "u2", NodeName |-> "n1", CreationTimestamp |-> 0,
      SnapshotTimestamp |-> 1000, Labels |-> NoLabels, Hash |-> GivenHash("h1")]}

MachineDeploymentSnapshots ==
    [Name : Names, CreationTimestamp : {0}, SnapshotTimestamp : {0, 1000, 2000},
     Replicas : {1}, Hash : {EmptyHash}]

WorkerPoolSnapshots ==
    [Name : {"w1"}, CreationTimestamp : {0}, SnapshotTimestamp : {1000, 2000},
     Minimum : {1}, Hash : {EmptyHash}]

-----------------------------------------------------------------------------
Init ==
    /\ worker_pool_info = <<>>
    /\ mcd_info = <<>>
    /\ node_info = <<>>
    /\ pod_info = <<>>
    /\ pdb_info = <<>>
    /\ ca_settings_info = <<>>
    /\ ret = [op |-> "none", err |-> "nil"]
    /\ dataAccess = [dataDB |-> "open", schema |-> StatementTables,
                     prepared |-> StatementFields, opened |-> 1, released |-> 0]

(* every write operation of every kind *)
Next ==
    \/ \E w \in WorkerPoolInfos, ok \in BOOLEAN :
          /\ StoreWorkerPoolInfo(w, ok)
          /\ UNCHANGED dataAccess
    \/ \E m \in MachineDeploymentInfos, ok \in BOOLEAN :
          /\ StoreMachineDeploymentInfo(m, ok)
          /\ UNCHANGED dataAccess
    \/ \E n \in NodeInfos, ok \in BOOLEAN :
          /\ StoreNodeInfo(n, ok)
          /\ UNCHANGED dataAccess
    \/ \E p \in PodInfos, ok \in BOOLEAN :
          /\ StorePodInfo(p, ok)
          /\ UNCHANGED dataAccess
    \/ \E c \in CASettingsInfos, ok \in BOOLEAN :
          /\ StoreCADeployment(c, ok)
          /\ UNCHANGED dataAccess
    \/ \E u \in UIDs, ok \in BOOLEAN :
          /\ insertPDB(u, 1000, ok)
          /\ UNCHANGED dataAccess
    \/ \E k \in Names, ok \in BOOLEAN :
          /\ UpdateMCDInfoDeletionTimestamp(k, 2000, ok)
          /\ UNCHANGED dataAccess
    \/ \E k \in Names, t \in DelTimes, ok \in BOOLEAN :
          /\ UpdateNodeInfoDeletionTimestamp(k, t, ok)
          /\ UNCHANGED dataAccess
    \/ \E u \in UIDs, ok \in BOOLEAN :
          /\ UpdatePodDeletionTimestamp(u, 2500, ok)
          /\ UNCHANGED dataAccess
    \/ \E u \in UIDs, t \in DelTimes, ok \in BOOLEAN :
          /\ updatePdbDeletionTimeStamp(u, t, ok)
          /\ UNCHANGED dataAccess

Spec == Init /\ [][Next]_vars

(* the node snapshot store *)
NodeNext ==
    \/ \E n \in NodeSnapshots, ok \in BOOLEAN :
          /\ StoreNodeInfo(n, ok)
          /\ UNCHANGED dataAccess
    \/ \E k \in Names, ok \in BOOLEAN :
          /\ UpdateNodeInfoDeletionTimestamp(k, 2000, ok)
          /\ UNCHANGED dataAccess
    \/ \E t \in {1500, 3000}, ok \in BOOLEAN :
          /\ QueryLoadNodeInfosBefore(t, ok)
          /\ UNCHANGED dataAccess
    \/ \E t \in {1500, 3000}, ok \in BOOLEAN :
          /\ QueryGetLatestNodesBeforeAndNotDeleted(t, ok)
          /\ UNCHANGED dataAccess
    \/ \E k \in Names, ok \in BOOLEAN :
          /\ QueryCountNodeInfoWithHash(k, GetHash("node", <<k, SomeLabels>>), ok)
          /\ UNCHANGED dataAccess

SpecNode == Init /\ [][NodeNext]_vars

(* the pod snapshot store *)
PodNext ==
    \/ \E p \in PodSnapshots, ok \in BOOLEAN :
          /\ StorePodInfo(p, ok)
          /\ UNCHANGED dataAccess
    \/ \E u \in UIDs, ok \in BOOLEAN :
          /\ UpdatePodDeletionTimestamp(u, 2000, ok)
          /\ UNCHANGED dataAccess
    \/ \E i \in 0..MaxRows, ok \in BOOLEAN :
          /\ QueryLoadLatestPodInfoWithName("p1", i, ok)
          /\ UNCHANGED dataAccess
    \/ \E u \in UIDs, ok \in BOOLEAN :
          /\ QueryCountPodInfoWithSpecHash(u, GivenHash("h1"), ok)
          /\ UNCHANGED dataAccess
    \/ \E ok \in BOOLEAN :
          /\ QueryGetLatestUnscheduledPodsBeforeTimestamp(1500, ok)
          /\ UNCHANGED dataAccess
    \/ \E ok \in BOOLEAN :
          /\ QueryGetLatestPodInfosBeforeSnapshotTime(1500, ok)
          /\ UNCHANGED dataAccess
    \/ \E ok \in BOOLEAN :
          /\ QueryGetLatestScheduledPodsBeforeTimestamp(3000, ok)
          /\ UNCHANGED dataAccess

SpecPod == Init /\ [][PodNext]_vars

(* the machine deployment and worker pool snapshot stores *)
McdNext ==
    \/ \E w \in WorkerPoolSnapshots, ok \in BOOLEAN :
          /\ StoreWorkerPoolInfo(w, ok)
          /\ UNCHANGED dataAccess
    \/ \E m \in MachineDeploymentSnapshots, ok \in BOOLEAN :
          /\ StoreMachineDeploymentInfo(m, ok)
          /\ UNCHANGED dataAccess
    \/ \E k \in Names, ok \in BOOLEAN :
          /\ UpdateMCDInfoDeletionTimestamp(k, 2000, ok)
          /\ UNCHANGED dataAccess
    \/ \E t \in {1000, 1500}, ok \in BOOLEAN :
          /\ QueryLoadWorkerPoolInfosBefore(t, ok)
          /\ UNCHANGED dataAccess
    \/ \E t \in {1000, 1500}, ok \in BOOLEAN :
          /\ QueryLoadMachineDeploymentInfosBefore(t, ok)
          /\ UNCHANGED dataAccess
    \/ \E k \in Names, ok \in BOOLEAN :
          /\ QueryLoadLatestMachineDeploymentInfo(k, ok)
          /\ UNCHANGED dataAccess

SpecMcd == Init /\ [][McdNext]_vars

(* every multi-row query, over tables of every kind it reads *)
ManyNext ==
    \/ \E w \in WorkerPoolInfos, ok \in BOOLEAN :
          /\ StoreWorkerPoolInfo(w, ok)
          /\ UNCHANGED dataAccess
    \/ \E m \in MachineDeploymentInfos, ok \in BOOLEAN :
          /\ m.Name = "n1" /\ StoreMachineDeploymentInfo(m, ok)
          /\ UNCHANGED dataAccess
    \/ \E n \in NodeInfos, ok \in BOOLEAN :
          /\ n.Name = "n1" /\ StoreNodeInfo(n, ok)
          /\ UNCHANGED dataAccess
    \/ \E p \in PodInfos, ok \in BOOLEAN :
          /\ StorePodInfo(p, ok)
          /\ UNCHANGED dataAccess
    \/ \E ok \in BOOLEAN :
          /\ UpdateNodeInfoDeletionTimestamp("n1", 2000, ok)
          /\ UNCHANGED dataAccess
    \/ \E t \in {1000, 3000}, ok \in BOOLEAN :
          /\ QueryLoadWorkerPoolInfosBefore(t, ok)
          /\ UNCHANGED dataAccess
    \/ \E t \in {1000, 3000}, ok \in BOOLEAN :
          /\ QueryLoadMachineDeploymentInfosBefore(t, ok)
          /\ UNCHANGED dataAccess
    \/ \E t \in {1000, 3000}, ok \in BOOLEAN :
          /\ QueryLoadNodeInfosBefore(t, ok)
          /\ UNCHANGED dataAccess
    \/ \E t \in {1000, 3000}, ok \in BOOLEAN :
          /\ QueryGetLatestNodesBeforeAndNotDeleted(t, ok)
          /\ UNCHANGED dataAccess
    \/ \E t \in {1000, 3000}, ok \in BOOLEAN :
          /\ QueryGetLatestUnscheduledPodsBeforeTimestamp(t, ok)
          /\ UNCHANGED dataAccess
    \/ \E t \in {1000, 3000}, ok \in BOOLEAN :
          /\ QueryGetLatestPodInfosBeforeSnapshotTime(t, ok)
          /\ UNCHANGED dataAccess
    \/ \E t \in {1000, 3000}, ok \in BOOLEAN :
          /\ QueryGetLatestScheduledPodsBeforeTimestamp(t, ok)
          /\ UNCHANGED dataAccess

SpecMany == Init /\ [][ManyNext]_vars

(* the single-row LoadLatest queries; no pod is ever named p2 *)
LatestNext ==
    \/ \E p \in PodSnapshots, ok \in BOOLEAN :
          /\ StorePodInfo(p, ok)
          /\ UNCHANGED dataAccess
    \/ \E m \in MachineDeploymentInfos, ok \in BOOLEAN :
          /\ StoreMachineDeploymentInfo(m, ok)
          /\ UNCHANGED dataAccess
    \/ \E k \in {"p1", "p2"}, i \in 0..MaxRows, ok \in BOOLEAN :
          /\ QueryLoadLatestPodInfoWithName(k, i, ok)
          /\ UNCHANGED dataAccess
    \/ \E k \in Names, ok \in BOOLEAN :
          /\ QueryLoadLatestMachineDeploymentInfo(k, ok)
          /\ UNCHANGED dataAccess

SpecLatest == Init /\ [][LatestNext]_vars

(* the count lookups *)
CountNext ==
    \/ \E n \in NodeInfos, ok \in BOOLEAN :
          /\ StoreNodeInfo(n, ok)
          /\ UNCHANGED dataAccess
    \/ \E p \in PodInfos, ok \in BOOLEAN :
          /\ StorePodInfo(p, ok)
          /\ UNCHANGED dataAccess
    \/ \E k \in Names, ok \in BOOLEAN :
          /\ CallCountNodeInfoWithHash(k, GetHash("node", <<k, SomeLabels>>), ok)
          /\ UNCHANGED dataAccess
    \/ \E u \in UIDs, ok \in BOOLEAN :
          /\ CallCountPodInfoWithSpecHash(u, GivenHash("h1"), ok)
          /\ UNCHANGED dataAccess
    \/ \E k \in Names, ok \in BOOLEAN :
          /\ UpdateNodeInfoDeletionTimestamp(k, 2000, ok)
          /\ UNCHANGED dataAccess
    \/ \E u \in UIDs, ok \in BOOLEAN :
          /\ UpdatePodDeletionTimestamp(u, 2000, ok)
          /\ UNCHANGED dataAccess

SpecCount == Init /\ [][CountNext]_vars

(* stores with supplied and with empty hashes, and a later update *)
CASettingsAnyHash == [Expander : {"least-waste"}, Hash : {EmptyHash, GivenHash("h1")}]

HashNext ==
    \/ \E c \in CASettingsAnyHash, ok \in BOOLEAN :
          /\ StoreCADeployment(c, ok)
          /\ UNCHANGED dataAccess
    \/ \E p \in PodInfos, ok \in BOOLEAN :
          /\ StorePodInfo(p, ok)
          /\ UNCHANGED dataAccess
    \/ \E w \in WorkerPoolInfos, ok \in BOOLEAN :
          /\ StoreWorkerPoolInfo(w, ok)
          /\ UNCHANGED dataAccess
    \/ \E u \in UIDs, t \in DelTimes, ok \in BOOLEAN :
          /\ UpdatePodDeletionTimestamp(u, t, ok)
          /\ UNCHANGED dataAccess

SpecHash == Init /\ [][HashNext]_vars

(* writes that fail: at the statement, or before it at the encoding *)
UnencodableLabels == {<<"a", "b">>, Unencodable}

WriteNodeInfos == [Name : {"n1"}, CreationTimestamp : {1000}, SnapshotTimestamp : {1000},
                   Labels : {SomeLabels, UnencodableLabels}, Hash : {EmptyHash}]

WritePodInfos == [Name : {"p1"}, UID : {"u1"}, NodeName : {"n1"}, CreationTimestamp : {1000},
                  SnapshotTimestamp : {1000}, Labels : {NoLabels, UnencodableLabels},
                  Hash : {EmptyHash}]

WriteNext ==
    \/ \E n \in WriteNodeInfos, ok \in BOOLEAN :
          /\ StoreNodeInfo(n, ok)
          /\ UNCHANGED dataAccess
    \/ \E p \in WritePodInfos, ok \in BOOLEAN :
          /\ StorePodInfo(p, ok)
          /\ UNCHANGED dataAccess
    \/ \E m \in MachineDeploymentInfos, ok \in BOOLEAN :
          /\ m.Name = "n1"
          /\ StoreMachineDeploymentInfo(m, ok)
          /\ UNCHANGED dataAccess
    \/ \E u \in UIDs, t \in DelTimes, ok \in BOOLEAN :
          /\ UpdatePodDeletionTimestamp(u, t, ok)
          /\ UNCHANGED dataAccess
    \/ \E k \in Names, t \in DelTimes, ok \in BOOLEAN :
          /\ UpdateNodeInfoDeletionTimestamp(k, t, ok)
          /\ UNCHANGED dataAccess
    \/ \E k \in Names, t \in DelTimes, ok \in BOOLEAN :
          /\ UpdateMCDInfoDeletionTimestamp(k, t, ok)
          /\ UNCHANGED dataAccess

SpecWrite == Init /\ [][WriteNext]_vars

(* nodes stored and loaded again: with and without labels, with the label  *)
(* that StoreNodeInfo drops, created on and off a millisecond boundary     *)
RoundNodeInfos == [Name : Names, CreationTimestamp : {1000, 1300}, SnapshotTimestamp : {2000},
                   Labels : {NoLabels, SomeLabels, SomeLabels \cup {LastAppliedLabel}},
                   Hash : {EmptyHash}]

RoundCutoffs == {1500, 3000}

RoundNext ==
    \/ \E n \in RoundNodeInfos, ok \in BOOLEAN :
          /\ StoreNodeInfo(n, ok)
          /\ UNCHANGED dataAccess
    \/ \E t \in RoundCutoffs, ok \in BOOLEAN :
          /\ QueryLoadNodeInfosBefore(t, ok)
          /\ UNCHANGED dataAccess

SpecRound == Init /\ [][RoundNext]_vars

(* the codecs on their own: every encoder on empty and non-empty values,  *)
(* every decoder on the encoded texts and on empty, blank and invalid ones *)
CodecNames == {"labels", "resources", "tolerations", "tsc", "taints", "podSpec"}

StringMaps == SUBSET {<<"a", "b">>, <<"c", "d">>, <<"e", "f">>}

RecordLists == {<<>>, <<"x">>, <<"y">>, <<"x", "x">>, <<"x", "y">>, <<"y", "x">>, <<"y", "y">>}

PodSpecs == [Containers : {<<>>, <<"c1">>, <<"c2">>, <<"c1", "c2">>}, NodeName : {"", "n1", "n2"}]

CodecValues(codec) ==
    CASE codec \in {"labels", "resources"} -> StringMaps
      [] codec \in {"tolerations", "tsc", "taints"} -> RecordLists
      [] codec = "podSpec" -> PodSpecs

ZeroValue(codec) ==
    CASE codec \in {"labels", "resources"} -> {}
      [] codec \in {"tolerations", "tsc", "taints"} -> <<>>
      [] codec = "podSpec" -> ZeroPodSpec

ToText(codec, value) ==
    CASE codec = "labels" -> labelsToText(value)
      [] codec = "resources" -> resourcesToText(value)
      [] codec = "tolerations" -> tolerationsToText(value)
      [] codec = "tsc" -> tscToText(value)
      [] codec = "taints" -> taintsToText(value)
      [] codec = "podSpec" -> specToJson(value)

FromText(codec, text) ==
    IF unmarshalErr(text) # "nil" THEN ZeroValue(codec)
    ELSE CASE codec = "labels" -> labelsFromText(text)
           [] codec = "resources" -> resourcesFromText(text)
           [] codec = "tolerations" -> tolerationsFromText(text)
           [] codec = "tsc" -> tscFromText(text)
           [] codec = "taints" -> taintsFromText(text)
           [] codec = "podSpec" -> speccFromJson(text)

CodecTexts(codec) ==
    {EmptyText, BlankText, InvalidText} \cup {ToText(codec, v) : v \in CodecValues(codec)}

CallToText(codec, value) ==
    /\ ret' = [op |-> "ToText", codec |-> codec, value |-> value,
               text |-> ToText(codec, value), err |-> "nil"]
    /\ UNCHANGED Tables

CallFromText(codec, text) ==
    /\ ret' = [op |-> "FromText", codec |-> codec, text |-> text,
               value |-> FromText(codec, text), err |-> unmarshalErr(text)]
    /\ UNCHANGED Tables

CodecNext ==
    \/ \E codec \in CodecNames : \E value \in CodecValues(codec) :
          /\ CallToText(codec, value)
          /\ UNCHANGED dataAccess
    \/ \E codec \in CodecNames : \E text \in CodecTexts(codec) :
          /\ CallFromText(codec, text)
          /\ UNCHANGED dataAccess

SpecCodec == Init /\ [][CodecNext]_vars

(* autoscaler settings stored under two hashes and looked up again *)
CAHashes == {GivenHash("h1"), GivenHash("h2")}

CASettingsByHash == [Expander : {"least-waste"}, Hash : CAHashes]

CANext ==
    \/ \E c \in CASettingsByHash, ok \in BOOLEAN :
          /\ StoreCADeployment(c, ok)
          /\ UNCHANGED dataAccess
    \/ \E ok \in BOOLEAN :
          /\ QueryGetLatestCADeployment(ok)
          /\ UNCHANGED dataAccess
    \/ \E h \in CAHashes, ok \in BOOLEAN, ignoresArg \in BOOLEAN :
          /\ QueryGetCADeploymentWithHash(h, ok, ignoresArg)
          /\ UNCHANGED dataAccess

SpecCA == Init /\ [][CANext]_vars

(* the facade from its construction on: the database file is new, or is    *)
(* one an earlier run has left behind                                      *)
ExistingSchemas == {{}, {"nodegroup_info"}, StatementTables}

FailSchema == {"none", "worker_pool_info", "pod_info"}

FailPrepare == {"none", "insertWorkerPoolInfo", "selectEventWithUID", "selectAllEvents",
                "selectLatestNodesBeforeAndNotDeleted"}

NewDataAccess ==
    /\ worker_pool_info = <<>>
    /\ mcd_info = <<>>
    /\ node_info = <<>>
    /\ pod_info = <<>>
    /\ pdb_info = <<>>
    /\ ca_settings_info = <<>>
    /\ ret = [op |-> "none", err |-> "nil"]
    /\ \E existing \in ExistingSchemas :
          dataAccess = [dataDB |-> "nil", schema |-> existing, prepared |-> {},
                        opened |-> 0, released |-> 0]

LifecycleNext ==
    \/ \E openOk \in BOOLEAN, fs \in FailSchema, fp \in FailPrepare, compiles \in BOOLEAN :
          DataAccessInit(openOk, fs, fp, compiles)
    \/ \E ok \in BOOLEAN : Close(ok)
    \/ \E ok \in BOOLEAN : LoadEventInfoWithUID(ok)

SpecLifecycle == NewDataAccess /\ [][LifecycleNext]_vars
-----------------------------------------------------------------------------
(* properties *)

(* a row of a table with a DeletionTimestamp column is kept, column by     *)
(* column, except that a NULL DeletionTimestamp may become a value         *)
RowsKept(old, new) ==
    /\ Len(new) >= Len(old)
    /\ \A i \in Indices(old) :
          /\ [new[i] EXCEPT !.DeletionTimestamp = old[i].DeletionTimestamp] = old[i]
          /\ new[i].DeletionTimestamp # old[i].DeletionTimestamp
                => old[i].DeletionTimestamp = NullTs /\ new[i].DeletionTimestamp # NullTs

RowsFrozen(old, new) ==
    /\ Len(new) >= Len(old)
    /\ \A i \in Indices(old) : new[i] = old[i]

(* C1: over any sequence of Store and UpdateDeletionTimestamp calls a      *)
(* persisted row is never removed and changes in no column but             *)
(* DeletionTimestamp, and DeletionTimestamp changes at most once, from     *)
(* NULL to a value: a later update with another timestamp does not alter   *)
(* it                                                                      *)
C1_RowImmutableDeletedOnce ==
    [][/\ RowsKept(mcd_info, mcd_info')
       /\ RowsKept(node_info, node_info')
       /\ RowsKept(pod_info, pod_info')
       /\ RowsKept(pdb_info, pdb_info')
       /\ RowsFrozen(worker_pool_info, worker_pool_info')
       /\ RowsFrozen(ca_settings_info, ca_settings_info')]_vars

NodeCount(tbl, k, h) == CountNodeInfoWithHash(tbl, k, h, TRUE).count

PodCount(tbl, u, h) == CountPodInfoWithSpecHash(tbl, u, h, TRUE).count

HashesIn(tbl) == {tbl[i].Hash : i \in Indices(tbl)}

(* C2: the store is insert-always: the count for (key, hash) is 0 before   *)
(* anything is stored, every successful Store of an object with that key   *)
(* and hash raises it by exactly one, also when such a row exists already, *)
(* and no other step changes it; so it is n after n such Store calls       *)
C2_InsertAlways ==
    /\ \A k \in Names, u \in UIDs, h \in {GivenHash("h1")} :
          NodeCount(node_info, k, h) = 0 /\ PodCount(pod_info, u, h) = 0
    /\ [][/\ \A k \in Names, h \in HashesIn(node_info') :
                NodeCount(node_info', k, h) = NodeCount(node_info, k, h) +
                   (IF /\ ret'.op = "StoreNodeInfo" /\ ret'.err = "nil"
                       /\ ret'.key = k /\ Last(node_info').Hash = h THEN 1 ELSE 0)
          /\ \A u \in UIDs, h \in HashesIn(pod_info') :
                PodCount(pod_info', u, h) = PodCount(pod_info, u, h) +
                   (IF /\ ret'.op = "StorePodInfo" /\ ret'.err = "nil"
                       /\ ret'.key = u /\ Last(pod_info').Hash = h THEN 1 ELSE 0)]_vars

(* a semantically identical node stored a second time: the count is 2 *)
C2_Witness ==
    /\ ret.op = "StoreNodeInfo" /\ ret.err = "nil"
    /\ Len(node_info) >= 2
    /\ NodeCount(node_info, ret.key, Last(node_info).Hash) = 2

StoreOps == {"StoreWorkerPoolInfo", "StoreMachineDeploymentInfo", "StoreNodeInfo",
             "StorePodInfo", "StoreCADeployment"}

TableOf(op) ==
    CASE op = "StoreWorkerPoolInfo" -> worker_pool_info
      [] op = "StoreMachineDeploymentInfo" -> mcd_info
      [] op = "StoreNodeInfo" -> node_info
      [] op = "StorePodInfo" -> pod_info
      [] op = "StoreCADeployment" -> ca_settings_info

(* C3: a successful Store of any kind returns the generated identifier of  *)
(* the row it has just appended                                            *)
C3_StoreReturnsRowID ==
    (ret.op \in StoreOps /\ ret.err = "nil")
        => /\ Len(TableOf(ret.op)) > 0
           /\ ret.rowID = Last(TableOf(ret.op)).RowID

(* the names and the RowIDs of the objects a multi-row query returned *)
NamesOf(infoObjs) == {infoObjs[j].Name : j \in 1..Len(infoObjs)}

RowIDsOf(infoObjs) == {infoObjs[j].RowID : j \in 1..Len(infoObjs)}

(* as-of times later than every deletion timestamp used *)
LaterCutoffs == {2500, 3000, 4000}

(* C4: right after UpdateNodeInfoDeletionTimestamp(k, td) has marked the   *)
(* rows of k, for every t > td GetLatestNodesBeforeAndNotDeleted(t)        *)
(* returns no object named k, LoadNodeInfosBefore(t) still returns every   *)
(* row of k created before t, and both return the other, non-deleted keys  *)
(* that have rows before t                                                 *)
C4_DeletedExcludedFromLatest ==
    [][(/\ ret'.op = "UpdateNodeInfoDeletionTimestamp"
        /\ ret'.err = "nil"
        /\ ret'.updated > 0)
       => \A t \in LaterCutoffs :
             t > ret'.ts =>
                LET latest == GetLatestNodesBeforeAndNotDeleted(node_info', t, TRUE)
                    before == LoadNodeInfosBefore(node_info', t, TRUE)
                IN /\ ret'.key \notin NamesOf(latest.infoObjs)
                   /\ \A i \in Indices(node_info') :
                         /\ (/\ node_info'[i].Name = ret'.key
                             /\ node_info'[i].CreationTimestamp < UnixMilli(t))
                               => i \in RowIDsOf(before.infoObjs)
                         /\ (/\ node_info'[i].Name # ret'.key
                             /\ node_info'[i].DeletionTimestamp = NullTs
                             /\ node_info'[i].CreationTimestamp < UnixMilli(t))
                               => i \in RowIDsOf(before.infoObjs)
                         /\ (/\ node_info'[i].Name # ret'.key
                             /\ node_info'[i].DeletionTimestamp = NullTs
                             /\ node_info'[i].SnapshotTimestamp < UnixMilli(t))
                               => node_info'[i].Name \in NamesOf(latest.infoObjs)]_vars

(* n1 has two rows, both just marked; n2 has a row that is not deleted:    *)
(* the latest-not-deleted query returns n2 only, the delete-agnostic one   *)
(* all three rows                                                          *)
C4_Witness ==
    /\ ret.op = "UpdateNodeInfoDeletionTimestamp" /\ ret.err = "nil" /\ ret.updated = 2
    /\ Len(node_info) = 3
    /\ NamesOf(GetLatestNodesBeforeAndNotDeleted(node_info, 3000, TRUE).infoObjs)
          = Names \ {ret.key}
    /\ RowIDsOf(LoadNodeInfosBefore(node_info, 3000, TRUE).infoObjs) = {1, 2, 3}

BeforeOps == {"LoadWorkerPoolInfosBefore", "LoadMachineDeploymentInfosBefore"}

BeforeTable(op) == IF op = "LoadWorkerPoolInfosBefore" THEN worker_pool_info ELSE mcd_info

(* C5 as stated: LoadBefore(c) returns exactly the stored rows whose       *)
(* timestamp is strictly less than c                                       *)
C5_ExactlyRowsBeforeCutoff ==
    (ret.op \in BeforeOps /\ ret.err # "QueryError")
        => RowIDsOf(ret.infoObjs) =
              {i \in Indices(BeforeTable(ret.op)) :
                  BeforeTable(ret.op)[i].SnapshotTimestamp * 1000 < ret.ts}

(* C5 amended: LoadBefore(c) returns exactly the stored rows whose         *)
(* millisecond timestamp is strictly less than c cut down to whole         *)
(* milliseconds, and fails with sql.ErrNoRows when there is none           *)
C5_ExactlyRowsBeforeCutoffMillis ==
    (ret.op \in BeforeOps /\ ret.err # "QueryError")
        => LET matching == {i \in Indices(BeforeTable(ret.op)) :
                              BeforeTable(ret.op)[i].SnapshotTimestamp < UnixMilli(ret.ts)}
           IN /\ RowIDsOf(ret.infoObjs) = matching
              /\ Len(ret.infoObjs) = Cardinality(matching)
              /\ ret.err = (IF matching = {} THEN "ErrNoRows" ELSE "nil")

(* snapshots of one key at t1 < t2 < t3, LoadBefore(t2) returned the row   *)
(* of t1 only                                                              *)
C5_Witness ==
    /\ ret.op = "LoadMachineDeploymentInfosBefore" /\ ret.err = "nil"
    /\ Len(mcd_info) = 3
    /\ \A i \in 1..3 : mcd_info[i].Name = "n1" /\ mcd_info[i].SnapshotTimestamp = i - 1
    /\ ret.ts = 1000
    /\ RowIDsOf(ret.infoObjs) = {1}

(* C6: LoadLatest(k) returns the row of k that was inserted last, whatever *)
(* the CreationTimestamps of the rows of k are                             *)
C6_LatestIsLastInserted ==
    /\ (ret.op = "LoadLatestPodInfoWithName" /\ ret.err = "nil")
          => ret.infoObj.RowID = MaxOf({i \in Indices(pod_info) : pod_info[i].Name = ret.key})
    /\ (ret.op = "LoadLatestMachineDeploymentInfo" /\ ret.err = "nil")
          => ret.infoObj.RowID = MaxOf({i \in Indices(mcd_info) : mcd_info[i].Name = ret.key})

MarkedOnly(old, new, col, key, p) ==
    /\ Len(new) = Len(old)
    /\ \A i \in Indices(old) :
          new[i] = IF old[i][col] = key THEN [old[i] EXCEPT !.DeletionTimestamp = p]
                   ELSE old[i]

(* C8: a successful UpdateDeletionTimestamp(k, ts) sets DeletionTimestamp  *)
(* on every row whose key is k, leaves every other row and every other     *)
(* table unchanged and returns the number of rows of k (several, or 0)     *)
C8_UpdateMarksRowsOfKey ==
    [][/\ (ret'.op = "UpdatePodDeletionTimestamp" /\ ret'.err = "nil")
          => /\ MarkedOnly(pod_info, pod_info', "UID", ret'.key,
                           IntParam(UnixMilli(ret'.ts)))
             /\ ret'.updated = Cardinality({i \in Indices(pod_info) :
                                               pod_info[i].UID = ret'.key})
             /\ UNCHANGED <<worker_pool_info, mcd_info, node_info, pdb_info,
                            ca_settings_info>>
       /\ (ret'.op = "UpdateNodeInfoDeletionTimestamp" /\ ret'.err = "nil")
          => /\ MarkedOnly(node_info, node_info', "Name", ret'.key, TimeParam(ret'.ts))
             /\ ret'.updated = Cardinality({i \in Indices(node_info) :
                                               node_info[i].Name = ret'.key})
             /\ UNCHANGED <<worker_pool_info, mcd_info, pod_info, pdb_info,
                            ca_settings_info>>
       /\ (ret'.op = "UpdateMCDInfoDeletionTimestamp" /\ ret'.err = "nil")
          => /\ MarkedOnly(mcd_info, mcd_info', "Name", ret'.key, TimeParam(ret'.ts))
             /\ ret'.updated = Cardinality({i \in Indices(mcd_info) :
                                               mcd_info[i].Name = ret'.key})
             /\ UNCHANGED <<worker_pool_info, node_info, pod_info, pdb_info,
                            ca_settings_info>>]_vars

(* two historical rows of one pod marked by one call, a row of another pod *)
(* left with a NULL DeletionTimestamp                                      *)
C8_Witness ==
    /\ ret.op = "UpdatePodDeletionTimestamp" /\ ret.err = "nil" /\ ret.updated = 2
    /\ Len(pod_info) = 3
    /\ \E i \in Indices(pod_info) :
          pod_info[i].UID # ret.key /\ pod_info[i].DeletionTimestamp = NullTs
    /\ \A i \in Indices(pod_info) :
          pod_info[i].UID = ret.key => pod_info[i].DeletionTimestamp = IntParam(2)

(* what every multi-row query returns in the current state for cutoff t *)
ManyResults(t) ==
    {LoadWorkerPoolInfosBefore(worker_pool_info, t, TRUE),
     LoadMachineDeploymentInfosBefore(mcd_info, t, TRUE),
     LoadNodeInfosBefore(node_info, t, TRUE),
     GetLatestNodesBeforeAndNotDeleted(node_info, t, TRUE),
     GetLatestUnscheduledPodsBeforeTimestamp(pod_info, t, TRUE),
     GetLatestPodInfosBeforeSnapshotTime(pod_info, t, TRUE),
     GetLatestScheduledPodsBeforeTimestamp(pod_info, t, TRUE)}

(* the rows the statement behind each query matches for cutoff t *)
ManyMatches(t) ==
    LET p == <<IntParam(UnixMilli(t)), IntParam(UnixMilli(t))>>
    IN <<SelectWorkerPoolInfoBefore(worker_pool_info, p),
         SelectMCDBefore(mcd_info, p),
         SelectNodeInfoBefore(node_info, p),
         SelectLatestNodesBeforeAndNotDeleted(node_info, p),
         SelectPodsWithEmptyNameAndBeforeCreationTimestamp(pod_info, p),
         SelectLatestPodsBeforeSnapshotTimestamp(pod_info, p),
         SelectLatestScheduledPodsBeforeSnapshotTimestamp(pod_info, p)>>

ManyOps == {"LoadWorkerPoolInfosBefore", "LoadMachineDeploymentInfosBefore",
            "LoadNodeInfosBefore", "GetLatestNodesBeforeAndNotDeleted",
            "GetLatestUnscheduledPodsBeforeTimestamp",
            "GetLatestPodInfosBeforeSnapshotTime",
            "GetLatestScheduledPodsBeforeTimestamp"}

(* C9: no multi-row query returns a successful empty sequence, neither the *)
(* call that has just returned nor any that could be made in this state,   *)
(* and each fails with sql.ErrNoRows whenever its statement matches zero   *)
(* rows                                                                    *)
C9_NotFoundOnZeroRows ==
    /\ (ret.op \in ManyOps /\ ret.err = "nil") => Len(ret.infoObjs) > 0
    /\ (ret.op \in ManyOps /\ ret.err = "ErrNoRows") => ret.infoObjs = <<>>
    /\ \A t \in Cutoffs :
          /\ \A r \in ManyResults(t) : r.err = "nil" => Len(r.infoObjs) > 0
          /\ ManyMatches(t)[1] = <<>>
                => LoadWorkerPoolInfosBefore(worker_pool_info, t, TRUE).err = "ErrNoRows"
          /\ ManyMatches(t)[2] = <<>>
                => LoadMachineDeploymentInfosBefore(mcd_info, t, TRUE).err = "ErrNoRows"
          /\ ManyMatches(t)[3] = <<>>
                => LoadNodeInfosBefore(node_info, t, TRUE).err = "ErrNoRows"
          /\ ManyMatches(t)[4] = <<>>
                => GetLatestNodesBeforeAndNotDeleted(node_info, t, TRUE).err = "ErrNoRows"
          /\ ManyMatches(t)[5] = <<>>
                => GetLatestUnscheduledPodsBeforeTimestamp(pod_info, t, TRUE).err = "ErrNoRows"
          /\ ManyMatches(t)[6] = <<>>
                => GetLatestPodInfosBeforeSnapshotTime(pod_info, t, TRUE).err = "ErrNoRows"
          /\ ManyMatches(t)[7] = <<>>
                => GetLatestScheduledPodsBeforeTimestamp(pod_info, t, TRUE).err = "ErrNoRows"

(* rows are recorded, yet the query that has just returned matched none   *)
(* of them and failed, while another query on the same table succeeds      *)
(* with rows                                                               *)
C9_Witness ==
    /\ ret.op = "GetLatestUnscheduledPodsBeforeTimestamp" /\ ret.err = "ErrNoRows"
    /\ ret.ts = 3000
    /\ Len(pod_info) > 0 /\ Len(mcd_info) > 0
    /\ GetLatestUnscheduledPodsBeforeTimestamp(pod_info, 3000, TRUE).err = "ErrNoRows"
    /\ GetLatestScheduledPodsBeforeTimestamp(pod_info, 3000, TRUE).err = "nil"
    /\ LoadMachineDeploymentInfosBefore(mcd_info, 1000, TRUE).err = "ErrNoRows"
    /\ LoadMachineDeploymentInfosBefore(mcd_info, 3000, TRUE).err = "nil"

(* a GetLatestNodesBeforeAndNotDeleted call that ran while node_info held  *)
(* rows, all of them marked deleted before the cutoff                      *)
AllNodesDeletedBeforeCutoff ==
    /\ ret.op = "GetLatestNodesBeforeAndNotDeleted"
    /\ ret.err # "QueryError"
    /\ Len(node_info) > 0
    /\ \A i \in Indices(node_info) :
          /\ node_info[i].DeletionTimestamp # NullTs
          /\ node_info[i].DeletionTimestamp.v < ret.ts

(* C10 as stated: with every stored node deleted before the cutoff the     *)
(* call yields an empty sequence                                           *)
C10_EmptySequenceWhenAllDeleted ==
    AllNodesDeletedBeforeCutoff => ret.err = "nil" /\ ret.infoObjs = <<>>

(* C10 amended: with every stored node deleted before the cutoff the call  *)
(* returns no NodeInfo and fails with the error that wraps sql.ErrNoRows   *)
C10_NotFoundWhenAllDeleted ==
    AllNodesDeletedBeforeCutoff => ret.err = "ErrNoRows" /\ ret.infoObjs = <<>>

(* the only node stored is n1, one row, marked deleted at 2000; the query  *)
(* for cutoff 3000 has returned                                            *)
C10_Witness ==
    /\ ret.op = "GetLatestNodesBeforeAndNotDeleted" /\ ret.err = "ErrNoRows"
    /\ ret.ts = 3000
    /\ Len(node_info) = 1
    /\ node_info[1].Name = "n1" /\ node_info[1].DeletionTimestamp = TimeParam(2000)

LatestOps == {"LoadLatestPodInfoWithName", "LoadLatestMachineDeploymentInfo"}

LatestTable(op) == IF op = "LoadLatestPodInfoWithName" THEN pod_info ELSE mcd_info

(* C11: a LoadLatest call for a key that has no row fails with the error   *)
(* wrapping sql.ErrNoRows; a LoadLatest call that returns a nil error      *)
(* returns a row of the key, never a zero-value object                     *)
C11_LoadLatestNeverStoredNotFound ==
    (ret.op \in LatestOps /\ ret.err # "QueryError")
        => LET stored == \E i \in Indices(LatestTable(ret.op)) :
                            LatestTable(ret.op)[i].Name = ret.key
           IN /\ ~stored => ret.err = "ErrNoRows" /\ ret.infoObj = <<>>
              /\ ret.err = "nil" => stored /\ ret.infoObj # <<>> /\ ret.infoObj.Name = ret.key

(* machine deployment n1 has rows, n2 was never stored and the lookup of   *)
(* n2 has failed                                                           *)
C11_Witness ==
    /\ ret.op = "LoadLatestMachineDeploymentInfo" /\ ret.err = "ErrNoRows"
    /\ ret.key = "n2"
    /\ Len(mcd_info) = 2
    /\ \A i \in Indices(mcd_info) : mcd_info[i].Name = "n1"

CountOps == {"CountPodInfoWithSpecHash", "CountNodeInfoWithHash"}

C13_InitNilMeansAllPrepared ==
    (ret.op = "Init" /\ ret.err = "nil")
        => /\ dataAccess.dataDB = "open"
           /\ \A i \in 1..Len(CreatedTables) : CreatedTables[i] \in dataAccess.schema
           /\ dataAccess.prepared = StatementFields

(* C14: Close may be called any number of times: with no open connection   *)
(* (before Init, or after a Close that released it) it returns nil, calls  *)
(* nothing and changes nothing; a Close that returns nil leaves d.dataDB   *)
(* nil; and no more handles are closed than were opened, one at most by    *)
(* each Close                                                              *)
C14_CloseRepeatable ==
    [][ret'.op = "Close" =>
          /\ dataAccess.dataDB = "nil" =>
                 ret'.err = "nil" /\ ~ret'.called /\ dataAccess' = dataAccess
          /\ ret'.err = "nil" => dataAccess'.dataDB = "nil"
          /\ dataAccess'.released <= dataAccess.released + 1
          /\ dataAccess'.released <= dataAccess'.opened
          /\ Tables' = Tables]_vars

C14_Witness ==
    /\ ret.op = "Close"
    /\ ~ret.called
    /\ dataAccess.opened = 1
    /\ dataAccess.released = 1

(* C15: no table ever holds a row whose Hash is empty: a Store given an     *)
(* object without a hash persists the computed one                         *)
C15_NoEmptyHashPersisted ==
    /\ \A i \in Indices(worker_pool_info) : worker_pool_info[i].Hash # EmptyHash
    /\ \A i \in Indices(mcd_info) : mcd_info[i].Hash # EmptyHash
    /\ \A i \in Indices(node_info) : node_info[i].Hash # EmptyHash
    /\ \A i \in Indices(pod_info) : pod_info[i].Hash # EmptyHash
    /\ \A i \in Indices(ca_settings_info) : ca_settings_info[i].Hash # EmptyHash

WriteOps == {"StoreWorkerPoolInfo", "StoreMachineDeploymentInfo", "StoreNodeInfo",
             "StorePodInfo", "StoreCADeployment", "UpdatePodDeletionTimestamp",
             "UpdateNodeInfoDeletionTimestamp", "UpdateMCDInfoDeletionTimestamp"}

C18_DeletionTimestampIntegerMillis ==
    /\ \A i \in Indices(node_info) : node_info[i].DeletionTimestamp.typ \in {"null", "int"}
    /\ \A i \in Indices(mcd_info) : mcd_info[i].DeletionTimestamp.typ \in {"null", "int"}
    /\ \A i \in Indices(pod_info) : pod_info[i].DeletionTimestamp.typ \in {"null", "int"}

(* C19: every encoder turns the empty value into the empty text and puts   *)
(* no null into a document it writes; every decoder turns an empty or      *)
(* blank text into the zero value without an error                         *)
C19_CodecsEmptyAndNull ==
    /\ ret.op = "ToText" =>
          /\ ret.value = ZeroValue(ret.codec) => ret.text.kind = "empty"
          /\ ~(ret.codec = "podSpec" /\ ret.text.kind = "json"
                  /\ ret.text.obj.containers.null)
    /\ (ret.op = "FromText" /\ TrimSpaceEmpty(ret.text)) =>
          /\ ret.err = "nil"
          /\ ret.value = ZeroValue(ret.codec)

(* C20: Init on a database that holds no table yet, with no failure of the *)
(* database itself, returns nil, and every table that a prepared statement *)
(* names has been created                                                  *)
C20_InitSucceedsOnFreshDatabase ==
    (ret.op = "Init" /\ ret.fresh /\ ~ret.injected)
        => /\ ret.err = "nil"
           /\ StatementTables \subseteq dataAccess.schema

(* C22: GetCADeploymentWithHash(h), when the database does not fail,       *)
(* returns no error; it returns a row with hash h when one is stored and   *)
(* nil when none is                                                        *)
C22_GetWithHashQueriesByHash ==
    (ret.op = "GetCADeploymentWithHash" /\ ~ret.failed)
        => /\ ret.err = "nil"
           /\ IF \E i \in Indices(ca_settings_info) : ca_settings_info[i].Hash = ret.hash
              THEN Len(ret.found) = 1 /\ ret.found[1].Hash = ret.hash
              ELSE Len(ret.found) = 0

(* C23: after a successful StoreNodeInfo(n) the caller's Labels map is as  *)
(* it was passed, and the Hash of the new row is the hash of the name and  *)
(* of the labels written to that row                                       *)
C23_StoreNodeInfoLeavesCallerLabels ==
    [][\A n \in RoundNodeInfos : StoreNodeInfo(n, TRUE) =>
          /\ ret'.labels = n.Labels
          /\ Last(node_info').Hash
                = GetHash("node", <<n.Name, labelsFromText(Last(node_info').Labels)>>)]_vars

(* C21: of the handles the facade has opened at most one is not closed,    *)
(* and none is after a Close that returned nil                             *)
C21_AtMostOneOpenConnection ==
    /\ dataAccess.opened - dataAccess.released <= 1
    /\ (ret.op = "Close" /\ ret.err = "nil") => dataAccess.opened = dataAccess.released
====
